---- MODULE Spec2Model ----
(***************************************************************************)
(* Dual-store write protocol of booknet-api-rust: the repositories that    *)
(* write a MongoDB collection and a Neo4j label inside one call, and the   *)
(* cache-aside services in front of them.                                  *)
(*                                                                         *)
(* One action is one call of a service or repository method.  The calls a  *)
(* method makes on the stores are replayed in source order; every store    *)
(* call that can return Err takes its outcome from the fault set F of the  *)
(* call.  A staged document mutation becomes visible only when the session *)
(* transaction commits, a staged graph mutation only when the Neo4j        *)
(* transaction commits.  `last` describes the call that produced the       *)
(* current state: its arguments, the store calls it attempted (log), the   *)
(* ones that failed (failed) and what it returned.                         *)
(***************************************************************************)
EXTENDS Integers, Sequences, FiniteSets, TLC

VARIABLES
  repo,         \* which object the behaviour drives: a repository, or the metadata service
  meta_docs,    \* MongoDB collection "metadata": _id -> updatable field, or NoDoc
  genre_nodes,  \* Neo4j label Genre: name -> bag of descriptions
  cache,        \* Redis: key -> slot
  author_docs,  \* MongoDB collection "authors": _id -> name, or NoDoc
  author_nodes, \* Neo4j label Author: author_id property -> bag of names
  user_docs,    \* MongoDB collection "users": _id -> document, or NoUser
  reader_nodes, \* Neo4j label Reader: user_id property -> bag of names
  reader_rated, \* user_id properties of the Reader nodes that carry a RATED relationship
  lang_docs,    \* MongoDB collection "languages": _id (the code) -> name, or NoDoc
  lang_nodes,   \* Neo4j label Language: code -> bag of names
  last,         \* the call that produced this state
  inflight      \* the service calls running side by side: call -> its position

metaVars == <<meta_docs, genre_nodes, cache>>
authorVars == <<author_docs, author_nodes>>
userVars == <<user_docs, reader_nodes, reader_rated>>
langVars == <<lang_docs, lang_nodes>>
vars == <<repo, meta_docs, genre_nodes, cache, author_docs, author_nodes,
          user_docs, reader_nodes, reader_rated, lang_docs, lang_nodes, last, inflight>>

(* ------------------------------ bounds --------------------------------- *)

\* documents a collection may hold at once
MaxDocs == 1
\* nodes a label may hold at once
MaxNodes == 1
\* entries the cache may hold at once
MaxCached == 1

(* ------------------------------ domains -------------------------------- *)

MetaKinds == {"source", "language", "genre"}
\* entity keys; "list" is an ordinary genre / source name
Keys == {"scifi", "list"}
\* values of the one updatable field (description / website / name)
Vals == {"d1", "d2"}
NoDoc == "none"

\* store calls that may return Err, by position in the protocol
StoreFaults == {"none", "graph_begin", "graph_stage", "doc_begin", "doc_read",
                "doc_stage", "doc_commit", "graph_commit", "doc_call"}
CacheFaults == {"cache_get", "cache_set", "cache_del", "cache_del_list"}

\* fault sets of a repository call: no fault, one failing store call, or a
\* failing store call followed by a failing clean-up call
RepoFaultSets ==
  {{p} \ {"none"} : p \in StoreFaults}
  \cup {{"graph_commit", "compensate"}}
  \cup {{"graph_commit", "timeout"}, {"graph_commit", "timeout", "applied"}}
  \cup {{p, c} : p \in {"graph_stage", "doc_stage"}, c \in {"doc_abort", "graph_rollback"}}

\* the fault sets that can act on a call made inside transactions, on a call
\* that is one plain collection call, on a call that ends right after
\* start_txn, and on a call that returns before any store call
TxnFaultSets == {F \in RepoFaultSets : "doc_call" \notin F}
DocOnlyFaultSets == {F \in RepoFaultSets : F \subseteq {"doc_call"}}
BeginOnlyFaultSets == {F \in RepoFaultSets : F \subseteq {"graph_begin"}}
NoFaultSets == {{}}

\* fault sets of a service call: a cache call fails, or the repository fails
ServiceFaultSets ==
  {{}} \cup {{q} : q \in CacheFaults}
  \cup {{"doc_call"}, {"graph_commit"}, {"graph_commit", "compensate"}}

NoLast == [op |-> "init", kind |-> "none", key |-> "none", val |-> "none",
           store |-> "none", res |-> "none", out |-> {}, log |-> <<>>, failed |-> {},
           batch |-> {}, status |-> "none"]

(* ------------------------------ helpers -------------------------------- *)

Range(s) == {s[i] : i \in DOMAIN s}

\* what a store holds after its commit call returned Err: a timed-out commit
\* ("timeout") has an unknown outcome, it took effect ("applied") or did not;
\* any other Err left the store as it was
commit(before, after, F) ==
  IF {"timeout", "applied"} \subseteq F THEN after ELSE before

\* position of the first occurrence of e in s, 0 when absent
Pos(s, e) == IF e \in Range(s)
             THEN CHOOSE i \in DOMAIN s : s[i] = e /\ \A j \in 1..(i - 1) : s[j] # e
             ELSE 0

RECURSIVE SumOver(_, _)
SumOver(S, f) == IF S = {} THEN 0
                 ELSE LET x == CHOOSE y \in S : TRUE
                      IN f[x] + SumOver(S \ {x}, f)

\* outcome of one repository call
Ret(d, n, r, l) == [docs |-> d, nodes |-> n, res |-> r, log |-> l, out |-> {}]
RetOut(d, n, r, l, o) == [docs |-> d, nodes |-> n, res |-> r, log |-> l, out |-> o]

\* number of nodes in a bag of nodes
BagCount(b) == SumOver(DOMAIN b, b)

(* --------------------------- metadata model ---------------------------- *)

\* Metadata enum value: kind, key() and the field update() sets
Metadata(kind, key, val) == [kind |-> kind, key |-> key, val |-> val]

save_in_noe4j(kind) == kind = "genre"

\* format!("{}:{}", kind, key)
mongo_id(kind, key) == <<kind, key>>

MetaIds == {mongo_id(k, key) : k \in MetaKinds, key \in Keys}

DocCount(docs) == Cardinality({id \in MetaIds : docs[id] # NoDoc})

\* Genre nodes carrying name k, as a bag of descriptions
NodeCount(nodes, k) == BagCount(nodes[k])
TotalNodes(nodes) == SumOver(Keys, [k \in Keys |-> NodeCount(nodes, k)])

\* CREATE (g:Genre {name:$k, description:$description})
neo4j_create_query(nodes, m) == [nodes EXCEPT ![m.key][m.val] = @ + 1]

\* MATCH (g:Genre {name:$k}) SET g.description = $description RETURN count(g) AS n
neo4j_update_query_with_count(nodes, m) ==
  [n |-> NodeCount(nodes, m.key),
   nodes |-> [nodes EXCEPT ![m.key] =
                [v \in Vals |-> IF v = m.val THEN NodeCount(nodes, m.key) ELSE 0]]]

\* MATCH (g:Genre {name:$k}) WITH g, count(g) AS n DETACH DELETE g RETURN n
\* (one row per node, n = 1 in each; neo4j_count reads the first row, or 0)
neo4j_delete_query_with_count(nodes, key) ==
  [n |-> IF NodeCount(nodes, key) > 0 THEN 1 ELSE 0,
   nodes |-> [nodes EXCEPT ![key] = [v \in Vals |-> 0]]]

\* the match arms of Metadata::neo4j_create_query / neo4j_update_query_with_count:
\* only Genre has a query, every other kind hits unreachable!()
has_neo4j_query(kind) == kind = "genre"

(* ------------------------- MetadataRepository -------------------------- *)

\* a session whose abort lets the staged mutation through
abort_transaction_applies(docs, staged) == staged

\* ClientSession::abort_transaction: the mutation staged in the session is
\* discarded, the collection keeps its content
abort_transaction(docs, staged) == docs

\* the compensation of insert: delete_one({_id}) on the collection
compensate_insert(docs, id) == [docs EXCEPT ![id] = NoDoc]

\* the compensation of update: replace_one({_id}, old) on the collection
compensate_update(docs, id, old) == IF docs[id] # NoDoc THEN [docs EXCEPT ![id] = old] ELSE docs

\* a delete compensation that re-inserts nothing
compensate_delete_skipped(docs, id, old) == docs

\* the compensation of delete: insert_one(old) on the collection
compensate_delete(docs, id, old) == IF docs[id] = NoDoc THEN [docs EXCEPT ![id] = old] ELSE docs

\* MetadataRepository::insert
insert(docs, nodes, m, F) ==
  LET id == mongo_id(m.kind, m.key)
      docs_in == [docs EXCEPT ![id] = m.val]
      l2 == <<"graph_begin", "graph_stage">>
      l4 == l2 \o <<"doc_begin", "doc_stage">>
      l6 == l4 \o <<"doc_commit", "graph_commit">>
  IN
  IF save_in_noe4j(m.kind) THEN
    IF "graph_begin" \in F THEN Ret(docs, nodes, "graph_begin", <<"graph_begin">>)
    ELSE IF ~has_neo4j_query(m.kind) THEN Ret(docs, nodes, "panic", <<"graph_begin">>)
    ELSE IF "graph_stage" \in F THEN Ret(docs, nodes, "graph_stage", l2)
    ELSE IF "doc_begin" \in F THEN Ret(docs, nodes, "doc_begin", l2 \o <<"doc_begin">>)
    ELSE IF "doc_stage" \in F \/ docs[id] # NoDoc
      THEN Ret(docs, nodes, "doc_stage", l4 \o <<"doc_abort", "graph_rollback">>)
    ELSE IF "doc_commit" \in F THEN Ret(docs, nodes, "doc_commit", l4 \o <<"doc_commit">>)
    ELSE IF "graph_commit" \in F
      THEN \* let _ = delete_one({_id}); the outcome of the delete is dropped
           Ret(IF "compensate" \in F THEN docs_in ELSE compensate_insert(docs_in, id),
               commit(nodes, neo4j_create_query(nodes, m), F), "graph_commit", l6 \o <<"compensate">>)
    ELSE Ret(docs_in, neo4j_create_query(nodes, m), "ok", l6)
  ELSE
    IF "doc_call" \in F \/ docs[id] # NoDoc
      THEN Ret(docs, nodes, "doc_call", <<"doc_call">>)
    ELSE Ret(docs_in, nodes, "ok", <<"doc_call">>)

\* MetadataRepository::update
update(docs, nodes, m, F) ==
  LET id == mongo_id(m.kind, m.key)
      docs_up == [docs EXCEPT ![id] = m.val]
      q == neo4j_update_query_with_count(nodes, m)
      l2 == <<"graph_begin", "graph_stage">>
      l3 == l2 \o <<"doc_begin">>
      l5 == l3 \o <<"doc_read", "doc_stage">>
      l7 == l5 \o <<"doc_commit", "graph_commit">>
  IN
  IF ~save_in_noe4j(m.kind) THEN
    IF "graph_begin" \in F THEN Ret(docs, nodes, "graph_begin", <<"graph_begin">>)
    ELSE IF ~has_neo4j_query(m.kind) THEN Ret(docs, nodes, "panic", <<"graph_begin">>)
    ELSE IF "graph_stage" \in F THEN Ret(docs, nodes, "graph_stage", l2)
    ELSE IF q.n = 0 THEN Ret(docs, nodes, "graph_missing", l2 \o <<"graph_rollback">>)
    ELSE IF "doc_begin" \in F THEN Ret(docs, nodes, "doc_begin", l3)
    ELSE IF "doc_read" \in F THEN Ret(docs, nodes, "doc_read", l3 \o <<"doc_read">>)
    ELSE IF docs[id] = NoDoc THEN Ret(docs, nodes, "doc_missing", l3 \o <<"doc_read">>)
    ELSE IF "doc_stage" \in F THEN Ret(docs, nodes, "doc_stage", l5)
    ELSE IF "doc_commit" \in F THEN Ret(docs, nodes, "doc_commit", l5 \o <<"doc_commit">>)
    ELSE IF "graph_commit" \in F
      THEN \* let _ = replace_one({_id}, old)
           Ret(IF "compensate" \in F THEN docs_up ELSE compensate_update(docs_up, id, docs[id]),
               commit(nodes, q.nodes, F), "graph_commit", l7 \o <<"compensate">>)
    ELSE Ret(docs_up, q.nodes, "ok", l7)
  ELSE
    IF "doc_call" \in F THEN Ret(docs, nodes, "doc_call", <<"doc_call">>)
    ELSE IF docs[id] = NoDoc THEN Ret(docs, nodes, "doc_missing", <<"doc_call">>)
    ELSE Ret(docs_up, nodes, "ok", <<"doc_call">>)

\* MetadataRepository::delete
delete(docs, nodes, kind, key, F) ==
  LET id == mongo_id(kind, key)
      docs_del == [docs EXCEPT ![id] = NoDoc]
      q == neo4j_delete_query_with_count(nodes, key)
      l2 == <<"graph_begin", "graph_stage">>
      l3 == l2 \o <<"doc_begin">>
      l5 == l3 \o <<"doc_read", "doc_stage">>
      l7 == l5 \o <<"doc_commit", "graph_commit">>
  IN
  IF save_in_noe4j(kind) THEN
    IF "graph_begin" \in F THEN Ret(docs, nodes, "graph_begin", <<"graph_begin">>)
    ELSE IF ~has_neo4j_query(kind) THEN Ret(docs, nodes, "panic", <<"graph_begin">>)
    ELSE IF "graph_stage" \in F THEN Ret(docs, nodes, "graph_stage", l2)
    ELSE IF q.n = 0 THEN Ret(docs, nodes, "graph_missing", l2 \o <<"graph_rollback">>)
    ELSE IF "doc_begin" \in F THEN Ret(docs, nodes, "doc_begin", l3)
    ELSE IF "doc_read" \in F THEN Ret(docs, nodes, "doc_read", l3 \o <<"doc_read">>)
    ELSE IF docs[id] = NoDoc THEN Ret(docs, nodes, "doc_missing", l3 \o <<"doc_read">>)
    ELSE IF "doc_stage" \in F THEN Ret(docs, nodes, "doc_stage", l5)
    ELSE IF "doc_commit" \in F THEN Ret(docs, nodes, "doc_commit", l5 \o <<"doc_commit">>)
    ELSE IF "graph_commit" \in F
      THEN \* let _ = insert_one(old)
           Ret(IF "compensate" \in F THEN docs_del ELSE compensate_delete(docs_del, id, docs[id]),
               commit(nodes, q.nodes, F), "graph_commit", l7 \o <<"compensate">>)
    ELSE Ret(docs_del, q.nodes, "ok", l7)
  ELSE
    IF "doc_call" \in F THEN Ret(docs, nodes, "doc_call", <<"doc_call">>)
    ELSE IF docs[id] = NoDoc THEN Ret(docs, nodes, "doc_missing", <<"doc_call">>)
    ELSE Ret(docs_del, nodes, "ok", <<"doc_call">>)

\* MetadataRepository::find_by_key
find_by_key(docs, kind, key) == docs[mongo_id(kind, key)]

\* MetadataRepository::find_all_by_type
find_all_by_type(docs, kind) ==
  {Metadata(kind, k, docs[mongo_id(kind, k)]) : k \in {x \in Keys : docs[mongo_id(kind, x)] # NoDoc}}


(* ------------------------------- cache --------------------------------- *)

\* MetadataService::cache_key: format!("{}{}:{}", prefix, kind, key)
cache_key(kind, key) == <<"booknet", kind, key>>

\* MetadataService::list_cache_key: format!("{}{}:list", prefix, kind)
list_cache_key(kind) == <<"booknet", kind, "list">>

CacheKeys == {cache_key(k, key) : k \in MetaKinds, key \in Keys}
             \cup {list_cache_key(k) : k \in MetaKinds}

\* a cache slot: nothing, one serialized Metadata, or a serialized Vec<Metadata>
Absent == [t |-> "absent", items |-> {}]
ItemVal(m) == [t |-> "item", items |-> {m}]
ListVal(S) == [t |-> "list", items |-> S]

set_key(c, k, v) == [c EXCEPT ![k] = v]
delete_key(c, k) == [c EXCEPT ![k] = Absent]
\* get_key::<T>: None on a missing key, Some on a payload of type T,
\* Err when the payload does not deserialize as T
get_key(c, k, t) == IF c[k].t = "absent" THEN "miss"
                    ELSE IF c[k].t = t THEN "hit" ELSE "decode_error"

\* outcome of one service call
SvcRet(r, c, res, out, l) ==
  [docs |-> r.docs, nodes |-> r.nodes, cache |-> c, store |-> r.res,
   res |-> res, out |-> out, log |-> r.log \o l]

NoCall(docs, nodes) == Ret(docs, nodes, "none", <<>>)

(* --------------------------- MetadataService --------------------------- *)

\* MetadataService::_create
_create(docs, nodes, c, m, F) ==
  LET r == insert(docs, nodes, m, F)
      c1 == set_key(c, cache_key(m.kind, m.key), ItemVal(m))
      c2 == delete_key(c1, list_cache_key(m.kind))
  IN
  IF r.res # "ok" THEN SvcRet(r, c, r.res, {}, <<>>)
  ELSE IF "cache_set" \in F THEN SvcRet(r, c, "cache_set", {}, <<"cache_set">>)
  ELSE IF "cache_del_list" \in F
    THEN SvcRet(r, c1, "cache_del_list", {}, <<"cache_set", "cache_del_list">>)
  ELSE SvcRet(r, c2, "ok", {m}, <<"cache_set", "cache_del_list">>)

\* an _update that writes the cache whatever the repository answered
_update_caches_on_failure(docs, nodes, c, m, F) ==
  LET r == update(docs, nodes, m, F)
      c1 == set_key(c, cache_key(m.kind, m.key), ItemVal(m))
      c2 == delete_key(c1, list_cache_key(m.kind))
  IN
  IF r.res # "ok" THEN SvcRet(r, c2, r.res, {}, <<"cache_set", "cache_del_list">>)
  ELSE IF "cache_set" \in F THEN SvcRet(r, c, "cache_set", {}, <<"cache_set">>)
  ELSE IF "cache_del_list" \in F
    THEN SvcRet(r, c1, "cache_del_list", {}, <<"cache_set", "cache_del_list">>)
  ELSE SvcRet(r, c2, "ok", {m}, <<"cache_set", "cache_del_list">>)

\* MetadataService::_update
_update(docs, nodes, c, m, F) ==
  LET r == update(docs, nodes, m, F)
      c1 == set_key(c, cache_key(m.kind, m.key), ItemVal(m))
      c2 == delete_key(c1, list_cache_key(m.kind))
  IN
  IF r.res # "ok" THEN SvcRet(r, c, r.res, {}, <<>>)
  ELSE IF "cache_set" \in F THEN SvcRet(r, c, "cache_set", {}, <<"cache_set">>)
  ELSE IF "cache_del_list" \in F
    THEN SvcRet(r, c1, "cache_del_list", {}, <<"cache_set", "cache_del_list">>)
  ELSE SvcRet(r, c2, "ok", {m}, <<"cache_set", "cache_del_list">>)

\* a _delete that leaves the cache as it found it
_delete_keeps_cache(docs, nodes, c, kind, key, F) ==
  LET r == delete(docs, nodes, kind, key, F) IN
  IF r.res # "ok" THEN SvcRet(r, c, r.res, {}, <<>>)
  ELSE SvcRet(r, c, "ok", {}, <<"cache_del", "cache_del_list">>)

\* MetadataService::_delete
_delete(docs, nodes, c, kind, key, F) ==
  LET r == delete(docs, nodes, kind, key, F)
      c1 == delete_key(c, cache_key(kind, key))
      c2 == delete_key(c1, list_cache_key(kind))
  IN
  IF r.res # "ok" THEN SvcRet(r, c, r.res, {}, <<>>)
  ELSE IF "cache_del" \in F THEN SvcRet(r, c, "cache_del", {}, <<"cache_del">>)
  ELSE IF "cache_del_list" \in F
    THEN SvcRet(r, c1, "cache_del_list", {}, <<"cache_del", "cache_del_list">>)
  ELSE SvcRet(r, c2, "ok", {}, <<"cache_del", "cache_del_list">>)

\* MetadataService::_get
_get(docs, nodes, c, kind, key, F) ==
  LET ck == cache_key(kind, key)
      r0 == NoCall(docs, nodes)
      found == find_by_key(docs, kind, key)
      m == Metadata(kind, key, found)
      r1 == Ret(docs, nodes, IF "doc_call" \in F THEN "doc_call" ELSE "ok", <<"doc_call">>)
  IN
  IF "cache_get" \in F THEN SvcRet(r0, c, "cache_get", {}, <<"cache_get">>)
  ELSE IF get_key(c, ck, "item") = "decode_error"
    THEN SvcRet(r0, c, "cache_decode", {}, <<"cache_get">>)
  ELSE IF get_key(c, ck, "item") = "hit" THEN SvcRet(r0, c, "ok", c[ck].items, <<"cache_get">>)
  ELSE IF "doc_call" \in F
    THEN [SvcRet(r1, c, "doc_call", {}, <<>>) EXCEPT !.log = <<"cache_get", "doc_call">>]
  ELSE IF found = NoDoc
    THEN [SvcRet(r1, c, "ok", {}, <<>>) EXCEPT !.log = <<"cache_get", "doc_call">>]
  ELSE IF "cache_set" \in F
    THEN [SvcRet(r1, c, "cache_set", {}, <<>>)
            EXCEPT !.log = <<"cache_get", "doc_call", "cache_set">>]
  ELSE [SvcRet(r1, set_key(c, ck, ItemVal(m)), "ok", {m}, <<>>)
          EXCEPT !.log = <<"cache_get", "doc_call", "cache_set">>]

\* MetadataService::_list
_list(docs, nodes, c, kind, F) ==
  LET ck == list_cache_key(kind)
      r0 == NoCall(docs, nodes)
      list == find_all_by_type(docs, kind)
      r1 == Ret(docs, nodes, IF "doc_call" \in F THEN "doc_call" ELSE "ok", <<"doc_call">>)
  IN
  IF "cache_get" \in F THEN SvcRet(r0, c, "cache_get", {}, <<"cache_get">>)
  ELSE IF get_key(c, ck, "list") = "decode_error"
    THEN SvcRet(r0, c, "cache_decode", {}, <<"cache_get">>)
  ELSE IF get_key(c, ck, "list") = "hit" THEN SvcRet(r0, c, "ok", c[ck].items, <<"cache_get">>)
  ELSE IF "doc_call" \in F
    THEN [SvcRet(r1, c, "doc_call", {}, <<>>) EXCEPT !.log = <<"cache_get", "doc_call">>]
  ELSE IF "cache_set" \in F
    THEN [SvcRet(r1, c, "cache_set", {}, <<>>)
            EXCEPT !.log = <<"cache_get", "doc_call", "cache_set">>]
  ELSE [SvcRet(r1, set_key(c, ck, ListVal(list)), "ok", list, <<>>)
          EXCEPT !.log = <<"cache_get", "doc_call", "cache_set">>]

(* -------------------------- genre controller -------------------------- *)

\* the StatusCode each handler answers with, from the Result of the service
\* call s (s.res = "ok" is Ok, s.out = {} is None)

\* get_genre, put_genre
get_genre(s) ==
  IF s.res # "ok" THEN "INTERNAL_SERVER_ERROR"
  ELSE IF s.out = {} THEN "NOT_FOUND" ELSE "OK"

put_genre(s) == get_genre(s)

\* post_genre, delete_genre, get_genres
post_genre(s) == IF s.res # "ok" THEN "INTERNAL_SERVER_ERROR" ELSE "OK"

delete_genre(s) == post_genre(s)

get_genres(s) == post_genre(s)

\* the handler of the genre routes that makes the service call op
genre_routes(op, s) ==
  CASE op = "get" -> get_genre(s)
    [] op = "create" -> post_genre(s)
    [] op = "update" -> put_genre(s)
    [] op = "delete" -> delete_genre(s)
    [] op = "list" -> get_genres(s)

(* ------------------------------ ObjectId -------------------------------- *)

\* ObjectId values of the model
ObjectIds == {"a1", "a2"}
NoId == "none"

\* ObjectId::to_hex and Display of ObjectId: the 24 hex digits
to_hex(i) == <<i>>

\* Display of Bson::ObjectId, what InsertOneResult::inserted_id.to_string() yields:
\* ObjectId("<hex>")
bson_to_string(i) == <<"ObjectId(", i, ")">>

\* identifier strings a caller may pass or a node may carry
IdStrings == {to_hex(i) : i \in ObjectIds} \cup {bson_to_string(i) : i \in ObjectIds}

\* ObjectId::parse_str: Ok exactly on the hex form
parse_ok(s) == \E i \in ObjectIds : s = to_hex(i)
parse_str(s) == CHOOSE i \in ObjectIds : s = to_hex(i)

(* -------------------------- AuthorRepository --------------------------- *)

AuthorNames == {"n1"}

AuthorDocCount(docs) == Cardinality({i \in ObjectIds : docs[i] # NoDoc})
AuthorNodeCount(nodes) == SumOver(IdStrings, [s \in IdStrings |-> BagCount(nodes[s])])

\* AuthorRepository::insert; a = Author{id: Option<ObjectId>, name}
author_insert(docs, nodes, a, F) ==
  LET dup == a.id # NoId /\ docs[a.id] # NoDoc
      docs_in == [docs EXCEPT ![a.id] = a.name]
      node_id == bson_to_string(a.id)
      l2 == <<"doc_begin", "doc_stage">>
      l3 == l2 \o <<"graph_begin">>
      l4 == l3 \o <<"graph_stage">>
  IN
  IF "doc_begin" \in F THEN Ret(docs, nodes, "doc_begin", <<"doc_begin">>)
  ELSE IF "doc_stage" \in F \/ dup THEN Ret(docs, nodes, "doc_stage", l2 \o <<"doc_abort">>)
  ELSE IF "graph_begin" \in F THEN Ret(docs, nodes, "graph_begin", l3)
  \* AuthorNode::from(&author): author.id.unwrap()
  ELSE IF a.id = NoId THEN Ret(docs, nodes, "panic", l3)
  ELSE IF "graph_stage" \in F
    THEN Ret(abort_transaction(docs, docs_in), nodes, "graph_stage",
             l4 \o <<"doc_abort", "graph_rollback">>)
  ELSE IF "doc_commit" \in F THEN Ret(docs, nodes, "doc_commit", l4 \o <<"doc_commit">>)
  ELSE IF "graph_commit" \in F
    THEN Ret(docs_in, commit(nodes, [nodes EXCEPT ![node_id][a.name] = @ + 1], F),
             "graph_commit", l4 \o <<"doc_commit", "graph_commit">>)
  ELSE RetOut(docs_in, [nodes EXCEPT ![node_id][a.name] = @ + 1], "ok",
              l4 \o <<"doc_commit", "graph_commit">>, {node_id})

\* AuthorRepository::delete; s = the author_id string of the caller
author_delete(docs, nodes, s, F) ==
  LET id == parse_str(s)
      docs_del == [docs EXCEPT ![id] = NoDoc]
      \* MATCH (a:Author {author_id:$author_id}) DETACH DELETE a
      nodes_del == [nodes EXCEPT ![s] = [n \in AuthorNames |-> 0]]
      l2 == <<"doc_begin", "doc_stage">>
      l3 == l2 \o <<"graph_begin">>
      l4 == l3 \o <<"graph_stage">>
  IN
  IF ~parse_ok(s) THEN Ret(docs, nodes, "invalid_id", <<>>)
  ELSE IF "doc_begin" \in F THEN Ret(docs, nodes, "doc_begin", <<"doc_begin">>)
  ELSE IF "doc_stage" \in F THEN Ret(docs, nodes, "doc_stage", l2)
  ELSE IF "graph_begin" \in F THEN Ret(docs, nodes, "graph_begin", l3)
  ELSE IF "graph_stage" \in F
    THEN IF "doc_abort" \in F THEN Ret(docs, nodes, "doc_abort", l4 \o <<"doc_abort">>)
         ELSE IF "graph_rollback" \in F
           THEN Ret(abort_transaction(docs, docs_del), nodes, "graph_rollback",
                    l4 \o <<"doc_abort", "graph_rollback">>)
         ELSE Ret(abort_transaction(docs, docs_del), nodes, "graph_stage",
                  l4 \o <<"doc_abort", "graph_rollback">>)
  ELSE IF "doc_commit" \in F THEN Ret(docs, nodes, "doc_commit", l4 \o <<"doc_commit">>)
  ELSE IF "graph_commit" \in F
    THEN Ret(docs_del, commit(nodes, nodes_del, F), "graph_commit",
             l4 \o <<"doc_commit", "graph_commit">>)
  ELSE RetOut(docs_del, nodes_del, "ok", l4 \o <<"doc_commit", "graph_commit">>,
              {docs[id] # NoDoc})

\* the identifiers of a batch that parse: filter_map(|id| parse_str(id).ok())
filter_map_parse(ss) == {parse_str(s) : s \in {t \in ss : parse_ok(t)}}

\* UNWIND $rows AS row CREATE (:Label {id: row.id, name: row.name})
unwind_create(nodes, rows) ==
  [s \in DOMAIN nodes |->
     [n \in DOMAIN nodes[s] |->
        nodes[s][n] + Cardinality({r \in rows : r.id = s /\ r.name = n})]]

\* OPTIONAL MATCH (a:Label) WHERE a.id IN $ids DETACH DELETE a
match_in_delete(nodes, ids) ==
  [s \in DOMAIN nodes |-> IF s \in ids THEN [n \in DOMAIN nodes[s] |-> 0] ELSE nodes[s]]

\* insert_many of the driver fails on a duplicate _id, in the batch or stored
dup_in_batch(stored, as) ==
  \/ \E a \in as : a.id \in stored
  \/ \E a, b \in as : a # b /\ a.id = b.id

\* AuthorRepository::insert_many; as = the authors, each with the _id it gets
author_insert_many(docs, nodes, as, F) ==
  LET docs_in == [i \in ObjectIds |->
                    IF \E a \in as : a.id = i
                    THEN (CHOOSE a \in as : a.id = i).name ELSE docs[i]]
      \* oid.to_string(): Display of ObjectId is the hex text
      rows == {[id |-> to_hex(a.id), name |-> a.name] : a \in as}
      nodes_in == unwind_create(nodes, rows)
      l2 == <<"doc_begin", "doc_stage">>
      l3 == l2 \o <<"graph_begin">>
      l4 == l3 \o <<"graph_stage">>
  IN
  IF as = {} THEN RetOut(docs, nodes, "ok", <<>>, {})
  ELSE IF "doc_begin" \in F THEN Ret(docs, nodes, "doc_begin", <<"doc_begin">>)
  ELSE IF "doc_stage" \in F \/ dup_in_batch({i \in ObjectIds : docs[i] # NoDoc}, as)
    THEN Ret(docs, nodes, "doc_stage", l2 \o <<"doc_abort">>)
  ELSE IF "graph_begin" \in F THEN Ret(docs, nodes, "graph_begin", l3)
  ELSE IF "graph_stage" \in F
    THEN Ret(abort_transaction(docs, docs_in), nodes, "graph_stage",
             l4 \o <<"doc_abort", "graph_rollback">>)
  ELSE IF "doc_commit" \in F THEN Ret(docs, nodes, "doc_commit", l4 \o <<"doc_commit">>)
  ELSE IF "graph_commit" \in F
    THEN Ret(docs_in, commit(nodes, nodes_in, F), "graph_commit",
             l4 \o <<"doc_commit", "graph_commit">>)
  ELSE RetOut(docs_in, nodes_in, "ok", l4 \o <<"doc_commit", "graph_commit">>,
              {r.id : r \in rows})

\* the part delete_many of the author and of the user repository share, from
\* start_session on; run_ok = the Cypher text is accepted by the server
delete_many_tail(docs, docs_del, nodes, nodes_del, deleted, run_ok, F) ==
  LET l2 == <<"doc_begin", "doc_stage">>
      l3 == l2 \o <<"graph_begin">>
      l4 == l3 \o <<"graph_stage">>
  IN
  IF "doc_begin" \in F THEN Ret(docs, nodes, "doc_begin", <<"doc_begin">>)
  ELSE IF "doc_stage" \in F
    THEN Ret(docs, nodes, IF "doc_abort" \in F THEN "doc_abort" ELSE "doc_stage",
             l2 \o <<"doc_abort">>)
  ELSE IF "graph_begin" \in F THEN Ret(docs, nodes, "graph_begin", l3)
  ELSE IF "graph_stage" \in F \/ ~run_ok
    THEN IF "doc_abort" \in F THEN Ret(docs, nodes, "doc_abort", l4 \o <<"doc_abort">>)
         ELSE IF "graph_rollback" \in F
           THEN Ret(abort_transaction(docs, docs_del), nodes, "graph_rollback",
                    l4 \o <<"doc_abort", "graph_rollback">>)
         ELSE Ret(abort_transaction(docs, docs_del), nodes, "graph_stage",
                  l4 \o <<"doc_abort", "graph_rollback">>)
  ELSE IF "doc_commit" \in F THEN Ret(docs, nodes, "doc_commit", l4 \o <<"doc_commit">>)
  ELSE IF "graph_commit" \in F
    THEN Ret(docs_del, commit(nodes, nodes_del, F), "graph_commit",
             l4 \o <<"doc_commit", "graph_commit">>)
  ELSE RetOut(docs_del, nodes_del, "ok", l4 \o <<"doc_commit", "graph_commit">>,
              {deleted})

\* AuthorRepository::delete_many; ss = the author_ids of the caller
\* a delete_many without the early return on an empty identifier list
author_delete_many_always_opens(docs, nodes, ss, F) ==
  LET ids == filter_map_parse(ss)
      neo4j_ids == {to_hex(i) : i \in ids}
      docs_del == [i \in ObjectIds |-> IF i \in ids THEN NoDoc ELSE docs[i]]
  IN delete_many_tail(docs, docs_del, nodes, match_in_delete(nodes, neo4j_ids),
                      \E i \in ids : docs[i] # NoDoc, TRUE, F)

author_delete_many(docs, nodes, ss, F) ==
  LET ids == filter_map_parse(ss)
      neo4j_ids == {to_hex(i) : i \in ids}
      docs_del == [i \in ObjectIds |-> IF i \in ids THEN NoDoc ELSE docs[i]]
  IN
  IF ids = {} THEN RetOut(docs, nodes, "ok", <<>>, {TRUE})
  ELSE delete_many_tail(docs, docs_del, nodes, match_in_delete(nodes, neo4j_ids),
                        \E i \in ids : docs[i] # NoDoc, TRUE, F)

(* --------------------------- UserRepository ---------------------------- *)

Names == {"n1", "n2"}
Roles == {"reader", "admin"}
NoUser == [name |-> "none", reviews |-> 0, shelf |-> 0]
\* elements a document's reviews / shelf array may hold
MaxPush == 1

UserDoc(name) == [name |-> name, reviews |-> 0, shelf |-> 0]
UserDocCount(docs) == Cardinality({i \in ObjectIds : docs[i] # NoUser})
ReaderNodeCount(g) == SumOver(IdStrings, [s \in IdStrings |-> BagCount(g.nodes[s])])
Graph(n, r) == [nodes |-> n, rated |-> r]

\* UserRole::save_in_noe4j
role_save_in_noe4j(role) == role = "reader"

\* UserRepository::insert; u = User{id: Option<ObjectId>, name, role}
user_insert(docs, g, u, F) ==
  LET dup == u.id # NoId /\ docs[u.id] # NoUser
      docs_in == [docs EXCEPT ![u.id] = UserDoc(u.name)]
      node_id == bson_to_string(u.id)
      l2 == <<"doc_begin", "doc_stage">>
      l3 == l2 \o <<"graph_begin">>
      l4 == l3 \o <<"graph_stage">>
  IN
  IF role_save_in_noe4j(u.role) THEN
    IF "doc_begin" \in F THEN Ret(docs, g, "doc_begin", <<"doc_begin">>)
    ELSE IF "doc_stage" \in F \/ dup THEN Ret(docs, g, "doc_stage", l2 \o <<"doc_abort">>)
    ELSE IF "graph_begin" \in F THEN Ret(docs, g, "graph_begin", l3)
    \* ReaderNode::from(&user): user.id.unwrap()
    ELSE IF u.id = NoId THEN Ret(docs, g, "panic", l3)
    ELSE IF "graph_stage" \in F
      THEN Ret(abort_transaction(docs, docs_in), g, "graph_stage",
               l4 \o <<"doc_abort", "graph_rollback">>)
    ELSE IF "doc_commit" \in F THEN Ret(docs, g, "doc_commit", l4 \o <<"doc_commit">>)
    ELSE IF "graph_commit" \in F
      THEN Ret(docs_in,
               commit(g, Graph([g.nodes EXCEPT ![node_id][u.name] = @ + 1], g.rated), F),
               "graph_commit", l4 \o <<"doc_commit", "graph_commit">>)
    ELSE RetOut(docs_in, Graph([g.nodes EXCEPT ![node_id][u.name] = @ + 1], g.rated), "ok",
                l4 \o <<"doc_commit", "graph_commit">>, {node_id})
  ELSE
    IF "doc_call" \in F \/ dup THEN Ret(docs, g, "doc_call", <<"doc_call">>)
    \* inserted_id.as_str().unwrap() on an ObjectId
    ELSE IF u.id = NoId THEN Ret(docs, g, "panic", <<"doc_call">>)
    ELSE Ret(docs_in, g, "panic", <<"doc_call">>)

\* the tail shared by update_name, add_book_to_shelf and add_review once the
\* document update is staged: start_txn, run, then commit both or undo both;
\* strict = the undo calls are propagated with `?` instead of ignored
user_graph_tail(docs, docs_up, g, g_up, modified, strict, F) ==
  LET l2 == <<"doc_begin", "doc_stage">>
      l3 == l2 \o <<"graph_begin">>
      l4 == l3 \o <<"graph_stage">>
  IN
  IF "graph_begin" \in F THEN Ret(docs, g, "graph_begin", l3)
  ELSE IF "graph_stage" \in F
    THEN IF strict /\ "doc_abort" \in F THEN Ret(docs, g, "doc_abort", l4 \o <<"doc_abort">>)
         ELSE IF strict /\ "graph_rollback" \in F
           THEN Ret(abort_transaction(docs, docs_up), g, "graph_rollback",
                    l4 \o <<"doc_abort", "graph_rollback">>)
         ELSE Ret(abort_transaction(docs, docs_up), g, "graph_stage",
                  l4 \o <<"doc_abort", "graph_rollback">>)
  ELSE IF "doc_commit" \in F THEN Ret(docs, g, "doc_commit", l4 \o <<"doc_commit">>)
  ELSE IF "graph_commit" \in F
    THEN Ret(docs_up, commit(g, g_up, F), "graph_commit",
             l4 \o <<"doc_commit", "graph_commit">>)
  ELSE RetOut(docs_up, g_up, "ok", l4 \o <<"doc_commit", "graph_commit">>, {modified})

\* the head shared by the same three: parse the id, open the session, stage
\* the document update
user_doc_head(docs, g, s, F, tail) ==
  IF ~parse_ok(s) THEN Ret(docs, g, "invalid_id", <<>>)
  ELSE IF "doc_begin" \in F THEN Ret(docs, g, "doc_begin", <<"doc_begin">>)
  ELSE IF "doc_stage" \in F THEN Ret(docs, g, "doc_stage", <<"doc_begin", "doc_stage">>)
  ELSE tail

\* UserRepository::update_name
user_update_name(docs, g, s, name, F) ==
  LET id == parse_str(s)
      found == docs[id] # NoUser
      docs_up == IF found THEN [docs EXCEPT ![id].name = name] ELSE docs
      \* MATCH (r:Reader {user_id:$user_id}) SET r.name=$name, $user_id = id.to_string()
      k == to_hex(id)
      g_up == Graph([g.nodes EXCEPT ![k] =
                       [n \in Names |-> IF n = name THEN BagCount(g.nodes[k]) ELSE 0]], g.rated)
  IN user_doc_head(docs, g, s, F,
       user_graph_tail(docs, docs_up, g, g_up, found /\ docs[id].name # name, FALSE, F))

\* UserRepository::add_book_to_shelf
user_add_book_to_shelf(docs, g, s, F) ==
  LET id == parse_str(s)
      found == docs[id] # NoUser
      docs_up == IF found THEN [docs EXCEPT ![id].shelf = @ + 1] ELSE docs
      \* MATCH (r:Reader {mid: $user_id}): no Reader node carries a property mid,
      \* the MATCH yields no row and the MERGE clauses never run
  IN user_doc_head(docs, g, s, F, user_graph_tail(docs, docs_up, g, g, found, TRUE, F))

\* UserRepository::add_review; book = a Book node with the review's book_id exists
user_add_review(docs, g, s, book, F) ==
  LET id == parse_str(s)
      found == docs[id] # NoUser
      docs_up == IF found THEN [docs EXCEPT ![id].reviews = @ + 1] ELSE docs
      \* MATCH (u:Reader {user_id: $user_id}) MATCH (b:Book ..) MERGE (u)-[r:RATED]->(b)
      g_up == IF book /\ BagCount(g.nodes[s]) > 0
              THEN Graph(g.nodes, g.rated \cup {s}) ELSE g
  IN user_doc_head(docs, g, s, F, user_graph_tail(docs, docs_up, g, g_up, found, TRUE, F))

\* UserRepository::delete
user_delete(docs, g, s, F) ==
  LET id == parse_str(s) IN
  IF ~parse_ok(s) THEN Ret(docs, g, "invalid_id", <<>>)
  ELSE IF "doc_call" \in F THEN Ret(docs, g, "doc_call", <<"doc_call">>)
  ELSE RetOut([docs EXCEPT ![id] = NoUser], g, "ok", <<"doc_call">>, {docs[id] # NoUser})

\* UserRepository::insert_many; us = the users, each with the _id it gets
user_insert_many(docs, g, us, F) ==
  LET docs_in == [i \in ObjectIds |->
                    IF \E u \in us : u.id = i
                    THEN UserDoc((CHOOSE u \in us : u.id = i).name) ELSE docs[i]]
      rows == {[id |-> to_hex(u.id), name |-> u.name] :
                 u \in {v \in us : role_save_in_noe4j(v.role)}}
      g_in == Graph(unwind_create(g.nodes, rows), g.rated)
      l2 == <<"doc_begin", "doc_stage">>
      l3 == l2 \o <<"graph_begin">>
      l4 == l3 \o <<"graph_stage">>
  IN
  IF us = {} THEN RetOut(docs, g, "ok", <<>>, {})
  ELSE IF "doc_begin" \in F THEN Ret(docs, g, "doc_begin", <<"doc_begin">>)
  ELSE IF "doc_stage" \in F \/ dup_in_batch({i \in ObjectIds : docs[i] # NoUser}, us)
    THEN Ret(docs, g, "doc_stage", l2 \o <<"doc_abort">>)
  ELSE IF "graph_begin" \in F THEN Ret(docs, g, "graph_begin", l3)
  ELSE IF "graph_stage" \in F
    THEN Ret(abort_transaction(docs, docs_in), g, "graph_stage",
             l4 \o <<"doc_abort", "graph_rollback">>)
  ELSE IF "doc_commit" \in F THEN Ret(docs, g, "doc_commit", l4 \o <<"doc_commit">>)
  ELSE IF "graph_commit" \in F
    THEN Ret(docs_in, commit(g, g_in, F), "graph_commit",
             l4 \o <<"doc_commit", "graph_commit">>)
  ELSE RetOut(docs_in, g_in, "ok", l4 \o <<"doc_commit", "graph_commit">>,
              {r.id : r \in rows})

\* whether the Cypher text of delete_many is accepted by the server: it
\* names user_ids without the $ of a parameter, an undefined variable
delete_many_query_ok == FALSE

\* UserRepository::delete_many; ss = the user_ids of the caller
user_delete_many(docs, g, ss, F) ==
  LET ids == filter_map_parse(ss)
      neo4j_ids == {to_hex(i) : i \in ids}
      docs_del == [i \in ObjectIds |-> IF i \in ids THEN NoUser ELSE docs[i]]
  IN
  IF ids = {} THEN RetOut(docs, g, "ok", <<>>, {TRUE})
  ELSE delete_many_tail(docs, docs_del, g,
                        Graph(match_in_delete(g.nodes, neo4j_ids), g.rated),
                        \E i \in ids : docs[i] # NoUser, delete_many_query_ok, F)

(* ------------------------- LanguageRepository -------------------------- *)

LangCodes == {"en", "fr"}

\* whether the Cypher text of each operation is accepted by the server:
\* the add and update texts close a brace and a parenthesis that were never opened
add_query_ok == FALSE
update_query_ok == FALSE
delete_query_ok == TRUE

LangDocCount(docs) == Cardinality({c \in LangCodes : docs[c] # NoDoc})
LangNodeCount(nodes) == SumOver(LangCodes, [c \in LangCodes |-> BagCount(nodes[c])])

\* LanguageRepository::add_language
add_language(docs, nodes, code, name, F) ==
  LET docs_in == [docs EXCEPT ![code] = name]
      l2 == <<"graph_begin", "graph_stage">>
      l4 == l2 \o <<"doc_begin", "doc_stage">>
      l5 == l4 \o <<"doc_commit">>
  IN
  IF "graph_begin" \in F THEN Ret(docs, nodes, "graph_begin", <<"graph_begin">>)
  ELSE IF "graph_stage" \in F \/ ~add_query_ok THEN Ret(docs, nodes, "graph_stage", l2)
  ELSE IF "doc_begin" \in F THEN Ret(docs, nodes, "doc_begin", l2 \o <<"doc_begin">>)
  ELSE IF "doc_stage" \in F \/ docs[code] # NoDoc
    THEN Ret(docs, nodes, "doc_stage", l4 \o <<"doc_abort", "graph_rollback">>)
  ELSE IF "doc_commit" \in F THEN Ret(docs, nodes, "doc_commit", l5 \o <<"graph_rollback">>)
  ELSE IF "graph_commit" \in F
    THEN Ret(IF "compensate" \in F THEN docs_in ELSE docs,
             commit(nodes, [nodes EXCEPT ![code][name] = @ + 1], F), "graph_commit",
             l5 \o <<"graph_commit", "compensate">>)
  ELSE RetOut(docs_in, [nodes EXCEPT ![code][name] = @ + 1], "ok",
              l5 \o <<"graph_commit">>, {name})

\* LanguageRepository::update_language
update_language(docs, nodes, code, name, F) ==
  LET docs_up == [docs EXCEPT ![code] = name]
      l2 == <<"graph_begin", "graph_stage">>
      l4 == l2 \o <<"doc_begin", "doc_stage">>
  IN
  IF "graph_begin" \in F THEN Ret(docs, nodes, "graph_begin", <<"graph_begin">>)
  ELSE IF "graph_stage" \in F \/ ~update_query_ok THEN Ret(docs, nodes, "graph_stage", l2)
  ELSE IF "doc_begin" \in F THEN Ret(docs, nodes, "doc_begin", l2 \o <<"doc_begin">>)
  ELSE IF "doc_stage" \in F THEN Ret(docs, nodes, "doc_stage", l4)
  \* modified_count == 0
  ELSE IF docs[code] = NoDoc \/ docs[code] = name
    THEN Ret(docs, nodes, "doc_missing", l4 \o <<"doc_abort", "graph_rollback">>)
  ELSE IF "doc_commit" \in F
    THEN Ret(docs, nodes, "doc_commit", l4 \o <<"doc_commit", "graph_rollback">>)
  \* the graph transaction is dropped without commit
  ELSE RetOut(docs_up, nodes, "ok", l4 \o <<"doc_commit">>, {name})

\* LanguageRepository::delete_language
delete_language(docs, nodes, code, F) ==
  LET docs_del == [docs EXCEPT ![code] = NoDoc]
      l2 == <<"graph_begin", "graph_stage">>
      l4 == l2 \o <<"doc_begin", "doc_stage">>
  IN
  IF "graph_begin" \in F THEN Ret(docs, nodes, "graph_begin", <<"graph_begin">>)
  ELSE IF "graph_stage" \in F \/ ~delete_query_ok THEN Ret(docs, nodes, "graph_stage", l2)
  ELSE IF "doc_begin" \in F THEN Ret(docs, nodes, "doc_begin", l2 \o <<"doc_begin">>)
  ELSE IF "doc_stage" \in F THEN Ret(docs, nodes, "doc_stage", l4)
  \* deleted_count == 0
  ELSE IF docs[code] = NoDoc
    THEN Ret(docs, nodes, "doc_missing", l4 \o <<"doc_abort", "graph_rollback">>)
  ELSE IF "doc_commit" \in F
    THEN Ret(docs, nodes, "doc_commit", l4 \o <<"doc_commit", "graph_rollback">>)
  \* the graph transaction is dropped without commit
  ELSE Ret(docs_del, nodes, "ok", l4 \o <<"doc_commit">>)

(* ------------------------------ actions -------------------------------- *)

CacheCount(c) == Cardinality({k \in CacheKeys : c[k] # Absent})

\* failed: the store and cache calls of the log that returned Err, by an
\* injected fault or of themselves (a duplicate _id, a rejected Cypher text),
\* and "timeout" when the graph commit's Err was a timeout
Call(op, kind, key, val, s, F) ==
  [op |-> op, kind |-> kind, key |-> key, val |-> val, store |-> s.store, res |-> s.res,
   out |-> s.out, log |-> s.log, failed |-> ((F \cup {s.res}) \cap Range(s.log))
                  \cup (IF "graph_commit" \in F \cap Range(s.log)
                        THEN F \cap {"timeout"} ELSE {}),
   batch |-> {}, status |-> "none"]

\* a direct repository call seen as a service outcome that never touches the cache
Direct(r) == SvcRet(r, cache, r.res, r.out, <<>>)

ApplyMeta(op, kind, key, val, s, F) ==
  /\ meta_docs' = s.docs
  /\ genre_nodes' = s.nodes
  /\ cache' = s.cache
  /\ last' = Call(op, kind, key, val, s, F)
  /\ UNCHANGED <<repo, inflight, authorVars, userVars, langVars>>

\* a service call; a call on a genre is made by a handler of the genre routes
ApplyService(op, kind, key, val, s, F) ==
  /\ meta_docs' = s.docs
  /\ genre_nodes' = s.nodes
  /\ cache' = s.cache
  /\ last' = [Call(op, kind, key, val, s, F) EXCEPT
               !.status = IF kind = "genre" THEN genre_routes(op, s) ELSE "none"]
  /\ UNCHANGED <<repo, inflight, authorVars, userVars, langVars>>

\* --- MetadataRepository driven directly

MetaInsert ==
  \E kind \in MetaKinds, key \in Keys, val \in Vals :
  \E F \in IF save_in_noe4j(kind) THEN TxnFaultSets ELSE DocOnlyFaultSets :
    /\ repo = "metadata"
    /\ DocCount(meta_docs) < MaxDocs
    /\ TotalNodes(genre_nodes) < MaxNodes
    /\ ApplyMeta("insert", kind, key, val,
                 Direct(insert(meta_docs, genre_nodes, Metadata(kind, key, val), F)), F)

MetaUpdate ==
  \E kind \in MetaKinds, key \in Keys, val \in Vals :
  \E F \in IF save_in_noe4j(kind) THEN DocOnlyFaultSets
           ELSE IF has_neo4j_query(kind) THEN TxnFaultSets ELSE BeginOnlyFaultSets :
    /\ repo = "metadata"
    /\ ApplyMeta("update", kind, key, val,
                 Direct(update(meta_docs, genre_nodes, Metadata(kind, key, val), F)), F)

MetaDelete ==
  \E kind \in MetaKinds, key \in Keys :
  \E F \in IF save_in_noe4j(kind) THEN TxnFaultSets ELSE DocOnlyFaultSets :
    /\ repo = "metadata"
    /\ ApplyMeta("delete", kind, key, "none",
                 Direct(delete(meta_docs, genre_nodes, kind, key, F)), F)

\* --- AuthorRepository

ApplyAuthor(op, key, val, r, F) ==
  /\ author_docs' = r.docs
  /\ author_nodes' = r.nodes
  /\ last' = Call(op, "author", key, val, Direct(r), F)
  /\ UNCHANGED <<repo, inflight, metaVars, userVars, langVars>>

AuthorInsert ==
  \E id \in ObjectIds \cup {NoId}, name \in AuthorNames, F \in TxnFaultSets :
    /\ repo = "author"
    /\ AuthorDocCount(author_docs) < MaxDocs
    /\ AuthorNodeCount(author_nodes) < MaxNodes
    /\ ApplyAuthor("insert", <<id>>, name,
                   author_insert(author_docs, author_nodes, [id |-> id, name |-> name], F), F)

AuthorDelete ==
  \E s \in IdStrings :
  \E F \in IF parse_ok(s) THEN TxnFaultSets ELSE NoFaultSets :
    /\ repo = "author"
    /\ ApplyAuthor("delete", s, "none", author_delete(author_docs, author_nodes, s, F), F)

\* a batch call on the author repository; batch = the identifier strings passed
ApplyAuthorMany(op, batch, r, F) ==
  /\ author_docs' = r.docs
  /\ author_nodes' = r.nodes
  /\ last' = [Call(op, "author", "none", "none", Direct(r), F) EXCEPT !.batch = batch]
  /\ UNCHANGED <<repo, inflight, metaVars, userVars, langVars>>

AuthorInsertMany ==
  \E as \in SUBSET [id : ObjectIds, name : AuthorNames] :
  \E F \in IF as # {} THEN TxnFaultSets ELSE NoFaultSets :
    /\ repo = "author"
    /\ AuthorDocCount(author_docs) + Cardinality(as) <= MaxDocs
    /\ AuthorNodeCount(author_nodes) + Cardinality(as) <= MaxNodes
    /\ ApplyAuthorMany("insert_many", {to_hex(a.id) : a \in as},
                       author_insert_many(author_docs, author_nodes, as, F), F)

AuthorDeleteMany ==
  \E ss \in SUBSET IdStrings :
  \E F \in IF filter_map_parse(ss) # {} THEN TxnFaultSets ELSE NoFaultSets :
    /\ repo = "author"
    /\ ApplyAuthorMany("delete_many", ss,
                       author_delete_many(author_docs, author_nodes, ss, F), F)

\* --- UserRepository

\* the user calls are driven with one identifier: every filter of the
\* repository is {_id: id}, calls on different documents do not interact
UserIds == {"a1"}
UserIdStrings == {to_hex(i) : i \in UserIds} \cup {bson_to_string(i) : i \in UserIds}

ApplyUser(op, key, val, r, F) ==
  /\ user_docs' = r.docs
  /\ reader_nodes' = r.nodes.nodes
  /\ reader_rated' = r.nodes.rated
  /\ last' = Call(op, "reader", key, val, Direct(r), F)
  /\ UNCHANGED <<repo, inflight, metaVars, authorVars, langVars>>

ReaderGraph == Graph(reader_nodes, reader_rated)

UserInsert ==
  \E id \in UserIds \cup {NoId}, name \in Names, role \in Roles :
  \E F \in IF role_save_in_noe4j(role) THEN TxnFaultSets ELSE DocOnlyFaultSets :
    /\ repo = "user"
    /\ UserDocCount(user_docs) < MaxDocs
    /\ ReaderNodeCount(ReaderGraph) < MaxNodes
    /\ ApplyUser("insert", <<id>>, name,
                 user_insert(user_docs, ReaderGraph,
                             [id |-> id, name |-> name, role |-> role], F), F)

UserUpdateName ==
  \E s \in UserIdStrings, name \in Names :
  \E F \in IF parse_ok(s) THEN TxnFaultSets ELSE NoFaultSets :
    /\ repo = "user"
    /\ ApplyUser("update_name", s, name,
                 user_update_name(user_docs, ReaderGraph, s, name, F), F)

UserAddBookToShelf ==
  \E s \in UserIdStrings :
  \E F \in IF parse_ok(s) THEN TxnFaultSets ELSE NoFaultSets :
    /\ repo = "user"
    /\ parse_ok(s) => user_docs[parse_str(s)].shelf < MaxPush
    /\ ApplyUser("add_book_to_shelf", s, "none",
                 user_add_book_to_shelf(user_docs, ReaderGraph, s, F), F)

UserAddReview ==
  \E s \in UserIdStrings, book \in BOOLEAN :
  \E F \in IF parse_ok(s) THEN TxnFaultSets ELSE NoFaultSets :
    /\ repo = "user"
    /\ parse_ok(s) => user_docs[parse_str(s)].reviews < MaxPush
    /\ ApplyUser("add_review", s, "none",
                 user_add_review(user_docs, ReaderGraph, s, book, F), F)

UserDelete ==
  \E s \in UserIdStrings :
  \E F \in IF parse_ok(s) THEN DocOnlyFaultSets ELSE NoFaultSets :
    /\ repo = "user"
    /\ ApplyUser("delete", s, "none", user_delete(user_docs, ReaderGraph, s, F), F)

ApplyUserMany(op, batch, r, F) ==
  /\ user_docs' = r.docs
  /\ reader_nodes' = r.nodes.nodes
  /\ reader_rated' = r.nodes.rated
  /\ last' = [Call(op, "reader", "none", "none", Direct(r), F) EXCEPT !.batch = batch]
  /\ UNCHANGED <<repo, inflight, metaVars, authorVars, langVars>>

UserInsertMany ==
  \E us \in SUBSET [id : UserIds, name : Names, role : Roles] :
  \E F \in IF us # {} THEN TxnFaultSets ELSE NoFaultSets :
    /\ repo = "user"
    /\ UserDocCount(user_docs) + Cardinality(us) <= MaxDocs
    /\ ReaderNodeCount(ReaderGraph) + Cardinality(us) <= MaxNodes
    /\ ApplyUserMany("insert_many", {to_hex(u.id) : u \in us},
                     user_insert_many(user_docs, ReaderGraph, us, F), F)

UserDeleteMany ==
  \E ss \in SUBSET UserIdStrings :
  \E F \in IF filter_map_parse(ss) # {} THEN TxnFaultSets ELSE NoFaultSets :
    /\ repo = "user"
    /\ ApplyUserMany("delete_many", ss,
                     user_delete_many(user_docs, ReaderGraph, ss, F), F)

\* --- LanguageRepository

ApplyLang(op, key, val, r, F) ==
  /\ lang_docs' = r.docs
  /\ lang_nodes' = r.nodes
  /\ last' = Call(op, "language", key, val, Direct(r), F)
  /\ UNCHANGED <<repo, inflight, metaVars, authorVars, userVars>>

AddLanguage ==
  \E code \in LangCodes, name \in Names, F \in RepoFaultSets :
    /\ repo = "language"
    /\ LangDocCount(lang_docs) < MaxDocs
    /\ LangNodeCount(lang_nodes) < MaxNodes
    /\ ApplyLang("add_language", code, name,
                 add_language(lang_docs, lang_nodes, code, name, F), F)

UpdateLanguage ==
  \E code \in LangCodes, name \in Names, F \in RepoFaultSets :
    /\ repo = "language"
    /\ ApplyLang("update_language", code, name,
                 update_language(lang_docs, lang_nodes, code, name, F), F)

DeleteLanguage ==
  \E code \in LangCodes, F \in RepoFaultSets :
    /\ repo = "language"
    /\ ApplyLang("delete_language", code, "none",
                 delete_language(lang_docs, lang_nodes, code, F), F)

\* --- MetadataService in front of MetadataRepository

\* the kinds the service is driven with: one inside the graph, one outside
ServiceKinds == {"genre", "source"}

\* each service action is driven over a set of kinds

Create(kinds) ==
  \E kind \in kinds, key \in Keys, val \in Vals, F \in ServiceFaultSets :
    LET s == _create(meta_docs, genre_nodes, cache, Metadata(kind, key, val), F) IN
    /\ repo = "service"
    /\ DocCount(meta_docs) < MaxDocs
    /\ TotalNodes(genre_nodes) < MaxNodes
    /\ CacheCount(s.cache) <= MaxCached
    /\ ApplyService("create", kind, key, val, s, F)

Update(kinds) ==
  \E kind \in kinds, key \in Keys, val \in Vals, F \in ServiceFaultSets :
    LET s == _update(meta_docs, genre_nodes, cache, Metadata(kind, key, val), F) IN
    /\ repo = "service"
    /\ CacheCount(s.cache) <= MaxCached
    /\ ApplyService("update", kind, key, val, s, F)

Delete(kinds) ==
  \E kind \in kinds, key \in Keys, F \in ServiceFaultSets :
    /\ repo = "service"
    /\ ApplyService("delete", kind, key, "none",
                    _delete(meta_docs, genre_nodes, cache, kind, key, F), F)

Get(kinds) ==
  \E kind \in kinds, key \in Keys, F \in ServiceFaultSets :
    LET s == _get(meta_docs, genre_nodes, cache, kind, key, F) IN
    /\ repo = "service"
    /\ CacheCount(s.cache) <= MaxCached
    /\ ApplyService("get", kind, key, "none", s, F)

List(kinds) ==
  \E kind \in kinds, F \in ServiceFaultSets :
    LET s == _list(meta_docs, genre_nodes, cache, kind, F) IN
    /\ repo = "service"
    /\ CacheCount(s.cache) <= MaxCached
    /\ ApplyService("list", kind, "none", "none", s, F)

\* a cache entry reaches its TTL (redis_ttl, one hour)
Expire(kinds) ==
  \E k \in {ck \in CacheKeys : ck[2] \in kinds} :
    /\ repo \in {"service", "race"}
    /\ cache[k] # Absent
    /\ cache' = delete_key(cache, k)
    /\ last' = [NoLast EXCEPT !.op = "expire"]
    /\ UNCHANGED <<repo, inflight, meta_docs, genre_nodes, authorVars, userVars, langVars>>

(* ------------------- service calls running side by side ---------------- *)

\* the handlers are async fns on a multi-threaded runtime: two calls on the
\* same kind and key advance one await at a time, in any order
CallIds == {1, 2}
RaceKind == "genre"
RaceKey == "scifi"
RaceId == mongo_id(RaceKind, RaceKey)
\* nodes a create may find: one more than a lone caller can leave behind
MaxRaceNodes == MaxNodes + 1

\* a call: its position (pc), what a read saw (seen), the document a write
\* committed (wrote) and replaced (old), the nodes its staged DETACH DELETE
\* matched (matched), and what it returned (res)
Idle == [op |-> "none", val |-> "none", pc |-> "idle", seen |-> {},
         wrote |-> "none", old |-> "none", matched |-> [v \in Vals |-> 0],
         res |-> "none"]
Free(i) == inflight[i].pc \in {"idle", "done"}
Done(c, res) == [c EXCEPT !.pc = "done", !.res = res]
RaceFrame == UNCHANGED <<repo, authorVars, userVars, langVars, last>>

\* the cache key a read works on
read_key(op) == IF op = "get" THEN cache_key(RaceKind, RaceKey) ELSE list_cache_key(RaceKind)

\* _get / _list: get_key on the cache; a hit returns
ReadLookup ==
  \E i \in CallIds, op \in {"get", "list"} :
    LET c == [Idle EXCEPT !.op = op]
        g == get_key(cache, read_key(op), IF op = "get" THEN "item" ELSE "list")
    IN
    /\ repo = "race"
    /\ Free(i)
    /\ inflight' = [inflight EXCEPT ![i] =
                      IF g = "miss" THEN [c EXCEPT !.pc = "read"]
                      ELSE IF g = "hit" THEN Done(c, "ok") ELSE Done(c, "cache_decode")]
    /\ UNCHANGED metaVars
    /\ RaceFrame

\* _get / _list: find_by_key / find_all_by_type after the miss
ReadStore ==
  \E i \in CallIds :
    LET c == inflight[i]
        found == find_by_key(meta_docs, RaceKind, RaceKey)
    IN
    /\ repo = "race"
    /\ c.pc = "read"
    /\ inflight' = [inflight EXCEPT ![i] =
                      IF c.op = "list"
                      THEN [c EXCEPT !.pc = "fill",
                                     !.seen = find_all_by_type(meta_docs, RaceKind)]
                      ELSE IF found = NoDoc THEN Done(c, "ok")
                      ELSE [c EXCEPT !.pc = "fill",
                                     !.seen = {Metadata(RaceKind, RaceKey, found)}]]
    /\ UNCHANGED metaVars
    /\ RaceFrame

\* _get / _list: set_key of what was read
ReadFill ==
  \E i \in CallIds :
    LET c == inflight[i] IN
    /\ repo = "race"
    /\ c.pc = "fill"
    /\ cache' = set_key(cache, read_key(c.op),
                        IF c.op = "list" THEN ListVal(c.seen)
                        ELSE ItemVal(CHOOSE m \in c.seen : TRUE))
    /\ inflight' = [inflight EXCEPT ![i] = Done(c, "ok")]
    /\ UNCHANGED <<meta_docs, genre_nodes>>
    /\ RaceFrame

\* whether the repository method runs the write inside a graph transaction
in_graph_txn(op, kind) == IF op = "update" THEN ~save_in_noe4j(kind) ELSE save_in_noe4j(kind)

\* _create / _update / _delete: the repository call up to and including the
\* commit of the document transaction (the single document call outside one)
WriteStore ==
  \E i \in CallIds, op \in {"create", "update", "delete"}, val \in Vals :
    LET m == Metadata(RaceKind, RaceKey, val)
        r == CASE op = "create" -> insert(meta_docs, genre_nodes, m, {})
               [] op = "update" -> update(meta_docs, genre_nodes, m, {})
               [] op = "delete" -> delete(meta_docs, genre_nodes, RaceKind, RaceKey, {})
        c == [Idle EXCEPT !.op = op, !.val = val]
    IN
    /\ repo = "race"
    /\ Free(i)
    /\ op = "delete" => val = "d1"
    /\ op = "create" => (DocCount(meta_docs) < MaxDocs /\ TotalNodes(genre_nodes) < MaxRaceNodes)
    /\ meta_docs' = r.docs
    /\ inflight' = [inflight EXCEPT ![i] =
                      IF r.res # "ok" THEN Done(c, r.res)
                      ELSE IF in_graph_txn(op, RaceKind)
                        THEN [c EXCEPT !.pc = "graph_commit", !.wrote = r.docs[RaceId],
                                       !.old = meta_docs[RaceId],
                                       !.matched = IF op = "delete" THEN genre_nodes[RaceKey]
                                                   ELSE @]
                      ELSE [c EXCEPT !.pc = "cache_item"]]
    /\ UNCHANGED <<genre_nodes, cache>>
    /\ RaceFrame

\* the commit of a staged DETACH DELETE: the nodes the MATCH bound when the
\* query ran are removed, a node committed since then stays
detach_delete(nodes, key, matched) ==
  [nodes EXCEPT ![key] = [v \in Vals |-> IF @[v] > matched[v] THEN @[v] - matched[v] ELSE 0]]

\* insert / delete: neo4j_tx.commit(), and on its Err the compensating
\* document write on the collection
GraphCommit(faults) ==
  \E i \in CallIds, F \in faults :
    LET c == inflight[i]
        m == Metadata(RaceKind, RaceKey, c.val)
    IN
    /\ repo = "race"
    /\ c.pc = "graph_commit"
    /\ IF "graph_commit" \in F
       THEN /\ meta_docs' = IF c.op = "create" THEN compensate_insert(meta_docs, RaceId)
                            ELSE compensate_delete(meta_docs, RaceId, c.old)
            /\ inflight' = [inflight EXCEPT ![i] = Done(c, "graph_commit")]
            /\ UNCHANGED genre_nodes
       ELSE /\ genre_nodes' = IF c.op = "create" THEN neo4j_create_query(genre_nodes, m)
                              ELSE detach_delete(genre_nodes, RaceKey, c.matched)
            /\ inflight' = [inflight EXCEPT ![i] = [c EXCEPT !.pc = "cache_item"]]
            /\ UNCHANGED meta_docs
    /\ UNCHANGED cache
    /\ RaceFrame

\* _create / _update: set_key of the item; _delete: delete_key of the item
WriteCacheItem ==
  \E i \in CallIds :
    LET c == inflight[i]
        ck == cache_key(RaceKind, RaceKey)
    IN
    /\ repo = "race"
    /\ c.pc = "cache_item"
    /\ cache' = IF c.op = "delete" THEN delete_key(cache, ck)
                ELSE set_key(cache, ck, ItemVal(Metadata(RaceKind, RaceKey, c.val)))
    /\ inflight' = [inflight EXCEPT ![i] = [c EXCEPT !.pc = "cache_list"]]
    /\ UNCHANGED <<meta_docs, genre_nodes>>
    /\ RaceFrame

\* _create / _update / _delete: delete_key of the list
WriteCacheList ==
  \E i \in CallIds :
    LET c == inflight[i] IN
    /\ repo = "race"
    /\ c.pc = "cache_list"
    /\ cache' = delete_key(cache, list_cache_key(RaceKind))
    /\ inflight' = [inflight EXCEPT ![i] = Done(c, "ok")]
    /\ UNCHANGED <<meta_docs, genre_nodes>>
    /\ RaceFrame

(* --------------------------- specifications ---------------------------- *)

InitOtherStores ==
  /\ meta_docs = [id \in MetaIds |-> NoDoc]
  /\ genre_nodes = [k \in Keys |-> [v \in Vals |-> 0]]
  /\ cache = [k \in CacheKeys |-> Absent]
  /\ author_docs = [i \in ObjectIds |-> NoDoc]
  /\ author_nodes = [s \in IdStrings |-> [n \in AuthorNames |-> 0]]
  /\ user_docs = [i \in ObjectIds |-> NoUser]
  /\ reader_nodes = [s \in IdStrings |-> [n \in Names |-> 0]]
  /\ reader_rated = {}
  /\ last = NoLast
  /\ inflight = [i \in CallIds |-> Idle]

InitStores ==
  /\ InitOtherStores
  /\ lang_docs = [c \in LangCodes |-> NoDoc]
  /\ lang_nodes = [c \in LangCodes |-> [n \in Names |-> 0]]

\* the language collection as LanguageRepository::new may find it: add_language
\* never succeeds (its Cypher text is rejected), so the languages the other
\* two methods work on were loaded from outside, each with its node
SeededLanguages == {d \in [LangCodes -> Names \cup {NoDoc}] : LangDocCount(d) <= MaxDocs}

InitLanguage ==
  /\ InitOtherStores
  /\ lang_docs \in SeededLanguages
  /\ lang_nodes = [c \in LangCodes |-> [n \in Names |-> IF lang_docs[c] = n THEN 1 ELSE 0]]

\* the repositories, each driven on its own collection and label
Init ==
  \/ repo \in {"metadata", "author", "user"} /\ InitStores
  \/ repo = "language" /\ InitLanguage

Next ==
  \/ MetaInsert \/ MetaUpdate \/ MetaDelete
  \/ AuthorInsert \/ AuthorDelete \/ AuthorInsertMany \/ AuthorDeleteMany
  \/ UserInsert \/ UserUpdateName \/ UserAddBookToShelf \/ UserAddReview \/ UserDelete
  \/ UserInsertMany \/ UserDeleteMany
  \/ AddLanguage \/ UpdateLanguage \/ DeleteLanguage

Spec == Init /\ [][Next]_vars

\* the repositories of the graph kinds Genre, Author and Reader when no store
\* call fails: every call of the behaviour ends with no failed call (the add
\* and update of LanguageRepository never do, their Cypher text is rejected)
NoCallFailed == last'.failed = {}

InitClean == repo \in {"metadata", "author", "user"} /\ InitStores

NextClean ==
  \/ MetaInsert /\ NoCallFailed
  \/ MetaUpdate /\ NoCallFailed
  \/ MetaDelete /\ NoCallFailed
  \/ AuthorInsert /\ NoCallFailed
  \/ AuthorDelete /\ NoCallFailed
  \/ AuthorInsertMany /\ NoCallFailed
  \/ AuthorDeleteMany /\ NoCallFailed
  \/ UserInsert /\ NoCallFailed
  \/ UserUpdateName /\ NoCallFailed
  \/ UserAddBookToShelf /\ NoCallFailed
  \/ UserAddReview /\ NoCallFailed
  \/ UserDelete /\ NoCallFailed
  \/ UserInsertMany /\ NoCallFailed
  \/ UserDeleteMany /\ NoCallFailed

SpecClean == InitClean /\ [][NextClean]_vars

\* the metadata service with its cache
InitService == repo = "service" /\ InitStores

NextService ==
  \/ Create(ServiceKinds) \/ Update(ServiceKinds) \/ Delete(ServiceKinds)
  \/ Get(ServiceKinds) \/ List(ServiceKinds) \/ Expire(MetaKinds)

SpecService == InitService /\ [][NextService]_vars

\* the metadata service driven on genres only: the documents, the nodes and the
\* cache keys of a kind are touched by the calls on that kind alone
NextGenre ==
  \/ Create({"genre"}) \/ Update({"genre"}) \/ Delete({"genre"})
  \/ Get({"genre"}) \/ List({"genre"}) \/ Expire({"genre"})

SpecGenre == InitService /\ [][NextGenre]_vars

\* the batch methods of the author and user repositories alone
InitBatch == repo \in {"author", "user"} /\ InitStores

NextBatch == AuthorInsertMany \/ AuthorDeleteMany \/ UserInsertMany \/ UserDeleteMany

SpecBatch == InitBatch /\ [][NextBatch]_vars

\* two metadata service calls on one genre, interleaved at their awaits, with
\* every store and cache call succeeding
InitRace == repo = "race" /\ InitStores

NextRace ==
  \/ ReadLookup \/ ReadStore \/ ReadFill
  \/ WriteStore \/ GraphCommit(NoFaultSets) \/ WriteCacheItem \/ WriteCacheList
  \/ Expire({RaceKind})

SpecRace == InitRace /\ [][NextRace]_vars

\* the same calls when the commit of the graph transaction may fail
CommitFaultSets == {{}, {"graph_commit"}}

NextCompensate ==
  \/ ReadLookup \/ ReadStore \/ ReadFill
  \/ WriteStore \/ GraphCommit(CommitFaultSets) \/ WriteCacheItem \/ WriteCacheList
  \/ Expire({RaceKind})

SpecCompensate == InitRace /\ [][NextCompensate]_vars

(* ------------------------------ properties ------------------------------ *)

docStores == <<meta_docs, author_docs, user_docs, lang_docs>>
graphStores == <<genre_nodes, author_nodes, reader_nodes, reader_rated, lang_nodes>>

\* the call ended because the graph mutation could not be staged (run failed),
\* whichever error the undo calls then put in front of it
GraphStageFailed(l) ==
  "graph_stage" \in Range(l.log) /\ l.res \in {"graph_stage", "doc_abort", "graph_rollback"}

\* no node carries the identifier, in either of the two renderings of an ObjectId
NoNodeFor(nodes, id) ==
  BagCount(nodes[to_hex(id)]) = 0 /\ BagCount(nodes[bson_to_string(id)]) = 0

\* C1: after a successful insert or update of a Genre, the document and every
\* Genre node of that name carry the same description and at least one node
\* exists; after a successful delete, neither the document nor a node exists.
C1_GenreDocNodeAgree ==
  (repo = "metadata" /\ last.kind = "genre" /\ last.res = "ok") =>
    LET id == mongo_id("genre", last.key) IN
    IF last.op = "delete"
    THEN meta_docs[id] = NoDoc /\ NodeCount(genre_nodes, last.key) = 0
    ELSE /\ meta_docs[id] = last.val
         /\ NodeCount(genre_nodes, last.key) > 0
         /\ genre_nodes[last.key][last.val] = NodeCount(genre_nodes, last.key)

\* C2: an Author insert changes both stores or neither: whatever step fails,
\* the author collection and the Author nodes are either both as before or
\* both changed.
C2_AuthorInsertAllOrNothing ==
  [][(repo = "author" /\ last'.op = "insert") =>
       \/ (author_docs' = author_docs /\ author_nodes' = author_nodes)
       \/ (author_docs' # author_docs /\ author_nodes' # author_nodes)]_vars

\* C3: in the metadata repository, when the graph commit fails after the
\* document commit and the compensation succeeds, the metadata collection is
\* what it was before the call.
C3_CompensationRestores ==
  [][(repo = "metadata" /\ last'.res = "graph_commit" /\ "compensate" \in Range(last'.log)
        /\ "compensate" \notin last'.failed)
       => meta_docs' = meta_docs]_vars

C3_Witness ==
  /\ repo = "metadata" /\ last.op = "delete" /\ last.res = "graph_commit"
  /\ Pos(last.log, "doc_commit") > 0 /\ Pos(last.log, "doc_commit") < Pos(last.log, "compensate")
  /\ "compensate" \notin last.failed
  /\ meta_docs[mongo_id(last.kind, last.key)] # NoDoc

\* C4: a call whose compensation failed returns an error other than the one
\* returned when the compensation succeeded (the graph commit error).
C4_CompensationFailureReported ==
  ("compensate" \in last.failed) => last.res # "graph_commit"

C6_DocStagedBeforeGraph ==
  (Pos(last.log, "graph_stage") > 0) =>
    (Pos(last.log, "doc_stage") > 0 /\ Pos(last.log, "doc_stage") < Pos(last.log, "graph_stage"))

\* C7: the graph commit is attempted only after a document commit that
\* succeeded; when the document commit fails the graph transaction is rolled
\* back, the document commit error is returned and no store changes.
C7_DocCommitFailureRollsBack ==
  [][/\ (Pos(last'.log, "graph_commit") > 0) =>
          (Pos(last'.log, "doc_commit") > 0
             /\ Pos(last'.log, "doc_commit") < Pos(last'.log, "graph_commit")
             /\ "doc_commit" \notin last'.failed)
     /\ ("doc_commit" \in last'.failed) =>
          /\ "graph_commit" \notin Range(last'.log)
          /\ "graph_rollback" \in Range(last'.log)
          /\ last'.res = "doc_commit"
          /\ UNCHANGED <<docStores, graphStores>>]_vars

\* C8: an update or delete, with no store call failing, on an entity whose
\* document exists and whose node is missing ends with the graph-entity-missing
\* error and leaves the document collection as it was.
C8_MissingNodeFails ==
  [][/\ (/\ repo = "metadata" /\ last'.kind = "genre" /\ last'.op \in {"update", "delete"}
         /\ last'.failed = {}
         /\ meta_docs[mongo_id("genre", last'.key)] # NoDoc
         /\ NodeCount(genre_nodes, last'.key) = 0)
          => (last'.res = "graph_missing" /\ meta_docs' = meta_docs)
     /\ (/\ repo = "author" /\ last'.op = "delete" /\ last'.failed = {}
         /\ parse_ok(last'.key)
         /\ author_docs[parse_str(last'.key)] # NoDoc
         /\ NoNodeFor(author_nodes, parse_str(last'.key)))
          => (last'.res = "graph_missing" /\ author_docs' = author_docs)
     /\ (/\ repo = "user" /\ last'.op \in {"update_name", "add_book_to_shelf", "add_review"}
         /\ last'.failed = {}
         /\ parse_ok(last'.key)
         /\ user_docs[parse_str(last'.key)] # NoUser
         /\ NoNodeFor(reader_nodes, parse_str(last'.key)))
          => (last'.res = "graph_missing" /\ user_docs' = user_docs)]_vars

\* C9: a metadata call on a kind outside the graph (Source, Language) makes
\* the one plain document call and nothing else: no graph transaction is
\* opened and no graph query is built.
C9_NonGraphKindDocOnly ==
  (repo = "metadata" /\ last.kind \in {"source", "language"}) =>
    (last.log = <<"doc_call">> /\ last.res # "panic")

\* C10: after a create or update of the metadata service that returned
\* success, the item key holds the written value and the list key of the
\* kind is absent.
C10_WriteThroughAndEvict ==
  (repo = "service" /\ last.op \in {"create", "update"} /\ last.res = "ok") =>
    /\ cache[cache_key(last.kind, last.key)] =
         ItemVal(Metadata(last.kind, last.key, last.val))
    /\ cache[list_cache_key(last.kind)] = Absent

\* the store layer reported that the entity does not exist
StoreNotFound(l) == l.store \in {"doc_missing", "graph_missing"}

\* C11: after a delete of the metadata service whose store delete succeeded
\* or reported not-found, and whose cache calls did not fail, the item key
\* and the list key of the kind are both absent.
C11_DeleteEvictsBothKeys ==
  (repo = "service" /\ last.op = "delete" /\ last.failed \cap CacheFaults = {}
     /\ (last.store = "ok" \/ StoreNotFound(last))) =>
    /\ cache[cache_key(last.kind, last.key)] = Absent
    /\ cache[list_cache_key(last.kind)] = Absent

\* C12: a service call in which only cache calls failed returns what the
\* stores determine: it does not fail.
C12_CacheFailureDoesNotFail ==
  (repo = "service" /\ last.failed # {} /\ last.failed \subseteq CacheFaults) =>
    last.res = "ok"

\* C13: right after a get or list of the metadata service that returned
\* without a failure, the same call made again (no write, no expiry in
\* between, no failure) returns the same payload and makes no document-store
\* call.
C13_RepeatedReadServedFromCache ==
  (repo = "service" /\ last.op \in {"get", "list"} /\ last.res = "ok") =>
    LET again == IF last.op = "get"
                 THEN _get(meta_docs, genre_nodes, cache, last.kind, last.key, {})
                 ELSE _list(meta_docs, genre_nodes, cache, last.kind, {})
    IN again.res = "ok" /\ again.out = last.out /\ "doc_call" \notin Range(again.log)

\* the call opened the handle (its begin call was made and did not fail)
Opened(l, begin) == begin \in Range(l.log) /\ begin \notin l.failed

\* C14: when a repository call returns, every graph transaction it opened
\* has had commit or rollback called on it, and every document session
\* transaction it opened has had commit_transaction or abort_transaction
\* called on it.
C14_HandlesResolved ==
  /\ Opened(last, "graph_begin") =>
       ("graph_commit" \in Range(last.log) \/ "graph_rollback" \in Range(last.log))
  /\ Opened(last, "doc_begin") =>
       ("doc_commit" \in Range(last.log) \/ "doc_abort" \in Range(last.log))

\* C15: a call whose graph commit ended with an unknown outcome (timeout)
\* reports CommitOutcomeUnknown and performs no compensating document write.
C15_UnknownCommitNotCompensated ==
  "timeout" \in last.failed =>
    last.res = "commit_outcome_unknown" /\ "compensate" \notin Range(last.log)

\* the identifier strings a delete or delete_many of the author or user
\* repository was given
IdsGiven(l) == IF l.op = "delete" THEN {l.key} ELSE l.batch

\* C16: a delete or delete_many given a malformed identifier, alone or among
\* the identifiers of a batch, fails with a validation error before any
\* session or transaction is opened: no store call is made.
C16_MalformedIdRejected ==
  (repo \in {"author", "user"} /\ last.op \in {"delete", "delete_many"}
     /\ \E s \in IdsGiven(last) : ~parse_ok(s)) =>
    last.res = "invalid_id" /\ last.log = <<>>

\* C17: an update or delete of a genre whose key has no document is answered
\* NOT_FOUND, and INTERNAL_SERVER_ERROR is answered only when a store or
\* cache call failed.
C17_MissingKeyIsNotFound ==
  (repo = "service" /\ last.kind = "genre" /\ last.op \in {"update", "delete"}) =>
    /\ (StoreNotFound(last) /\ meta_docs[mongo_id(last.kind, last.key)] = NoDoc) =>
         last.status = "NOT_FOUND"
    /\ last.status = "INTERNAL_SERVER_ERROR" => last.failed # {}

\* C18: an insert_many or delete_many whose graph commit fails after the
\* document batch was committed leaves the document store as it was before
\* the call: the committed batch is reversed before the failure is reported.
C18_BatchReversedOnGraphCommitFailure ==
  [][(last'.op \in {"insert_many", "delete_many"} /\ "graph_commit" \in last'.failed) =>
       (author_docs' = author_docs /\ user_docs' = user_docs)]_vars

\* C19: between calls, when no store call has failed, a document of a graph
\* kind exists exactly when a node with the same key exists: a Genre document
\* and the Genre node of its name, an Author document and the Author node
\* whose author_id is its identifier; and every Reader node has the User
\* document of its user_id.
C19_DocIffNode ==
  /\ \A k \in Keys :
       meta_docs[mongo_id("genre", k)] # NoDoc <=> NodeCount(genre_nodes, k) > 0
  /\ \A i \in ObjectIds :
       author_docs[i] # NoDoc <=> BagCount(author_nodes[to_hex(i)]) > 0
  /\ \A t \in IdStrings :
       BagCount(author_nodes[t]) > 0 => parse_ok(t)
  /\ \A t \in IdStrings :
       BagCount(reader_nodes[t]) > 0 => (parse_ok(t) /\ user_docs[parse_str(t)] # NoUser)

\* C20: the lifecycle of a Genre key through the service. Right after a
\* successful create or update a get of the key returns the entity just
\* written; after a successful update the list cache key is absent; after a
\* successful delete a get of the key finds nothing and no Genre node of the
\* key exists.
C20_GenreLifecycle ==
  (repo = "service" /\ last.kind = "genre" /\ last.res = "ok"
     /\ last.op \in {"create", "update", "delete"}) =>
    LET g == _get(meta_docs, genre_nodes, cache, "genre", last.key, {}) IN
    /\ g.res = "ok"
    /\ last.op \in {"create", "update"} => g.out = {Metadata("genre", last.key, last.val)}
    /\ last.op = "update" => cache[list_cache_key("genre")] = Absent
    /\ last.op = "delete" => (g.out = {} /\ NodeCount(genre_nodes, last.key) = 0)

\* a Genre that was created has been deleted through the service
C20_Witness ==
  /\ repo = "service" /\ last.kind = "genre" /\ last.op = "delete" /\ last.res = "ok"
  /\ "doc_commit" \in Range(last.log)

\* the call made the commit call and it returned Ok
Committed(l, c) == c \in Range(l.log) /\ c \notin l.failed

\* C21: a call that staged a graph mutation and returns success has committed
\* the graph transaction and the document transaction.
C21_SuccessMeansBothCommitted ==
  (last.res = "ok" /\ "graph_stage" \in Range(last.log)) =>
    (Committed(last, "graph_commit") /\ Committed(last, "doc_commit"))

\* C22: when the graph mutation fails to stage, the rollback of the graph
\* transaction is attempted, the abort of the document transaction is
\* attempted when one is open, and the error returned is the staging error.
C22_GraphStageFailureUndoesBoth ==
  GraphStageFailed(last) =>
    /\ "graph_rollback" \in Range(last.log)
    /\ Opened(last, "doc_begin") => "doc_abort" \in Range(last.log)
    /\ last.res = "graph_stage"

\* C23: when the document staging call of a write fails, the write returns the
\* document staging error, the document transaction is aborted, a graph
\* mutation the write had staged is rolled back, and no store changes.
C23_DocStageFailureUndoes ==
  [][("doc_stage" \in last'.failed) =>
       /\ last'.res = "doc_stage"
       /\ "doc_abort" \in Range(last'.log)
       /\ "graph_stage" \in Range(last'.log) => "graph_rollback" \in Range(last'.log)
       /\ UNCHANGED docStores
       /\ UNCHANGED graphStores]_vars

\* C24: a successful insert_many returns the identifier of every document of
\* the batch, whether or not the entity takes part in the graph.
C24_InsertManyReturnsEveryId ==
  (last.op = "insert_many" /\ last.res = "ok") => last.out = last.batch

\* the cache calls a service makes
CacheCalls == {"cache_get", "cache_set", "cache_del", "cache_del_list"}

\* the repository write behind the service call returned Err
WriteFailed(l) == l.op \in {"create", "update"} /\ l.store # "ok"

\* C25: when the repository write behind a create or an update fails, the
\* service makes no cache call and every cache entry is as it was before.
C25_FailedWriteLeavesCache ==
  [][WriteFailed(last') =>
       (cache' = cache /\ Range(last'.log) \cap CacheCalls = {})]_vars

\* a failed update found an entry in the cache
C25_Witness ==
  /\ repo = "service"
  /\ last.op = "update"
  /\ last.store # "ok"
  /\ \E k \in CacheKeys : cache[k] # Absent

\* the calls that write: create, update and delete of every repository
WriteOps == {"insert", "update", "delete", "insert_many", "delete_many",
             "update_name", "add_book_to_shelf", "add_review",
             "add_language", "update_language", "delete_language"}

\* C26: every create, update or delete returns a result, success or failure;
\* none ends in a panic that unwinds the call without one.
C26_EveryWriteReturns ==
  last.op \in WriteOps => last.res # "panic"

\* C28: the item cache key of the entity a service call names differs from
\* the list cache key of its kind, whatever the entity's key.
C28_ItemKeyIsNotListKey ==
  (repo = "service" /\ last.op \in {"create", "update", "delete", "get"}) =>
    cache_key(last.kind, last.key) # list_cache_key(last.kind)

\* C29: after a service write whose repository call committed, the list cache
\* entry of the kind is gone, also when the item cache call of the same write
\* failed (the eviction of the list key itself not failing).
C29_ListEvictedAfterCommit ==
  (/\ repo = "service"
   /\ last.op \in {"create", "update", "delete"}
   /\ last.store = "ok"
   /\ "cache_del_list" \notin last.failed) =>
    cache[list_cache_key(last.kind)] = Absent

\* every call has returned
Quiescent == \A i \in CallIds : Free(i)

\* C27: once the interleaved calls have all returned, the item entry and the
\* list entry still in the cache equal what a read of the collection returns.
C27_NoStaleEntryAfterRace ==
  (repo = "race" /\ Quiescent) =>
    /\ cache[cache_key(RaceKind, RaceKey)] # Absent =>
         /\ find_by_key(meta_docs, RaceKind, RaceKey) # NoDoc
         /\ cache[cache_key(RaceKind, RaceKey)] =
              ItemVal(Metadata(RaceKind, RaceKey, find_by_key(meta_docs, RaceKind, RaceKey)))
    /\ cache[list_cache_key(RaceKind)] # Absent =>
         cache[list_cache_key(RaceKind)] = ListVal(find_all_by_type(meta_docs, RaceKind))

\* C30: the compensating document write of a call whose graph commit failed
\* leaves the document alone when another call has changed it since the
\* call's own document commit.
C30_CompensationKeepsLaterWrite ==
  [][\A i \in CallIds :
       (/\ repo = "race"
        /\ inflight[i].pc = "graph_commit"
        /\ inflight'[i].res = "graph_commit"
        /\ meta_docs[RaceId] # inflight[i].wrote)
       => meta_docs'[RaceId] = meta_docs[RaceId]]_vars

\* C31: at most one committed Genre node carries the name of an entity.
C31_OneNodePerKey ==
  \A k \in Keys : NodeCount(genre_nodes, k) <= 1

\* the step is an update of a stored entity to the value it holds, none of
\* whose store calls failed
SameValueUpdate ==
  /\ last'.failed = {}
  /\ \/ /\ repo = "user"
        /\ last'.op = "update_name"
        /\ parse_ok(last'.key)
        /\ user_docs[parse_str(last'.key)] # NoUser
        /\ user_docs[parse_str(last'.key)].name = last'.val
     \/ /\ repo = "metadata"
        /\ last'.op = "update"
        /\ last'.kind = "genre"
        /\ meta_docs[mongo_id(last'.kind, last'.key)] = last'.val

\* C32: an update of a stored entity to the value it already holds succeeds,
\* is not answered with the zero count of an entity that is not found, and
\* changes neither store.
C32_SameValueUpdateSucceeds ==
  [][SameValueUpdate =>
       /\ last'.res = "ok"
       /\ last'.out # {FALSE}
       /\ UNCHANGED docStores
       /\ UNCHANGED graphStores]_vars

\* the batch call had nothing to work on: no entity to insert, or no
\* identifier of the list that parses
EmptyBatch(l) ==
  \/ l.op = "insert_many" /\ l.batch = {}
  \/ l.op = "delete_many" /\ filter_map_parse(l.batch) = {}

\* C33: insert_many of no entity and delete_many of no valid identifier return
\* success, make no call on the document store or the graph, and change
\* neither store.
C33_EmptyBatchIsNoOp ==
  [][EmptyBatch(last') =>
       /\ last'.res = "ok"
       /\ last'.log = <<>>
       /\ UNCHANGED docStores
       /\ UNCHANGED graphStores]_vars

\* a delete_many of identifiers none of which parses, with an author stored
C33_Witness ==
  /\ repo = "author"
  /\ last.op = "delete_many"
  /\ last.batch # {}
  /\ filter_map_parse(last.batch) = {}
  /\ \E i \in ObjectIds : author_docs[i] # NoDoc
====
